---- MODULE Spec2Model ----
(***************************************************************************)
(* Model of WebcamALPR (src/webcam_alpr.py): the time-windowed duplicate   *)
(* filter is_duplicate, the session journal written by save_detection, the *)
(* candidate loop of run and the session summary of run's finally block.   *)
(*                                                                         *)
(* Time is an integer number of seconds.  time() and datetime.now() are    *)
(* reads of the same wall clock `now`; a timestamp is kept as the clock    *)
(* reading it renders.  Confidences are integers in units of 10^-5.        *)
(***************************************************************************)
EXTENDS Integers, Sequences, FiniteSets, TLC

\* ---------------------------------------------------------------- bounds
MaxTime == 2        \* the clock is capped at this reading
MaxCalls == 2       \* cap on the number of save_detection calls in a session

\* ---------------------------------------------------------------- inputs
\* clock advance, in seconds, between two clock reads inside one call
Delays == {0, 1}

Plates == {"ABC123", "XYZ999"}

\* result.detection.confidence values, units of 10^-5
DetConfs == {50000, 90000}

\* ocr_result.confidence: a number (units of 10^-5), or a value that is no
\* number, on which round() raises TypeError (numeric = FALSE)
OcrConfs == {[numeric |-> TRUE, value |-> 91234], [numeric |-> FALSE, value |-> 0]}

\* result.ocr: None (present = FALSE), or an OcrResult with text and confidence
NoOcr == [present |-> FALSE, text |-> "", confidence |-> [numeric |-> FALSE, value |-> 0]]

OcrResults ==
    {NoOcr} \cup [present : {TRUE}, text : Plates, confidence : OcrConfs]

\* constructor arguments: the defaults of __init__ are 0.7 and 5.0; the
\* window is scaled to the small clock, and values the constructor accepts
\* although they make no sense (negative window, confidence outside [0,1])
\* are included because nothing in __init__ rejects them
Thresholds == {-1, 0, 2}

MinConfidences == {-10000, 70000, 110000}

\* the configurations explored: every window with the default confidence
\* filter, and every confidence filter with the positive window
Configs ==
    {c \in [duplicate_threshold : Thresholds, min_confidence : MinConfidences] :
        c.min_confidence = 70000 \/ c.duplicate_threshold = 2}

VARIABLES
    duplicate_threshold,   \* self.duplicate_threshold
    min_confidence,        \* self.min_confidence
    session_id,            \* self.session_id
    detected_plates,       \* self.detected_plates, a sequence of records
    last_seen,             \* self.last_seen, a function plate -> time() reading
    file,                  \* what self.session_file holds on disk
    now,                   \* the wall clock
    pc,                    \* "constructed", "running", "done" or "killed"
    unique_plates,         \* the summary mapping built in run's finally block
    last,                  \* history: the last candidate and what run did with it
    written,               \* history: completed and reached when the file was last written in full
    accepted,              \* history: the plates save_detection has been called for
    calls,                 \* history: number of save_detection calls so far
    completed,             \* history: number of them that returned normally
    reached,               \* history: number of them that got as far as the write
    failed                 \* history: positions in detected_plates of the records whose write failed

vars ==
    <<duplicate_threshold, min_confidence, session_id, detected_plates,
      last_seen, file, now, pc, unique_plates, last, written, accepted,
      calls, completed, reached, failed>>

\* ------------------------------------------------------------- helpers
\* the empty dict {}
EmptyMap == [p \in {} |-> 0]

\* d[k] = v on a dict
DictSet(d, k, v) == [p \in (DOMAIN d) \cup {k} |-> IF p = k THEN v ELSE d[p]]

\* round(c, 4) on a confidence in units of 10^-5: to the nearest multiple of
\* 10, a tie going to the even fourth decimal
Round4(c) ==
    LET r == c % 10
        lo == c - r
    IN  IF r < 5 THEN lo
        ELSE IF r > 5 THEN lo + 10
        ELSE IF (lo \div 10) % 2 = 0 THEN lo ELSE lo + 10

\* is_duplicate as it would be with "<=" for "<"
is_duplicate_inclusive(plate_text, current_time) ==
    /\ plate_text \in DOMAIN last_seen
    /\ current_time - last_seen[plate_text] <= duplicate_threshold

\* WebcamALPR.is_duplicate, given the reading current_time = time()
is_duplicate(plate_text, current_time) ==
    /\ plate_text \in DOMAIN last_seen
    /\ current_time - last_seen[plate_text] < duplicate_threshold

\* the detection record save_detection builds
Detection(plate_text, timestamp, confidence, detection_confidence) ==
    [timestamp |-> timestamp,
     plate |-> plate_text,
     ocr_confidence |-> Round4(confidence.value),
     detection_confidence |-> Round4(detection_confidence)]

\* session_start as it would be if taken from the newest detection
SessionStart_Latest(plates, fallback) ==
    IF Len(plates) > 0 THEN plates[Len(plates)].timestamp ELSE fallback

\* the "session_start" value of the document json.dump is given
SessionStart(plates, fallback) ==
    IF Len(plates) > 0 THEN plates[1].timestamp ELSE fallback

\* the document as it would be if total_detections counted only the
\* save_detection calls whose write succeeded
Document_CountsCompleted(plates, fallback) ==
    [session_id |-> session_id,
     session_start |-> SessionStart(plates, fallback),
     total_detections |-> completed + 1,
     detections |-> plates]

\* the document json.dump is given
Document(plates, fallback) ==
    [session_id |-> session_id,
     session_start |-> SessionStart(plates, fallback),
     total_detections |-> Len(plates),
     detections |-> plates]

\* the states of the session file
NoFile == [kind |-> "absent"]
EmptyFile == [kind |-> "empty"]
PartialFile(doc) == [kind |-> "partial", doc |-> doc]
FullFile(doc) == [kind |-> "document", doc |-> doc]

\* self.detected_plates.append(detection)
AppendDetection(plates, detection) == Append(plates, detection)

\* what "with open(session_file, 'w') as f: json.dump(doc, f)" leaves on
\* disk.  open(.., "w") truncates the file before a byte is written, and
\* json.dump writes the document piece by piece, so a write that is cut short
\* leaves an empty file or the beginning of the document.
\*   ok           the document is written and the file closed
\*   open_fails   open raises: the file is as it was
\*   dump_fails   json.dump raises after open truncated the file
\*   killed_open  the process is killed after open, before the first byte
\*   killed_dump  the process is killed while json.dump is writing
WriteFile(old, doc, outcome, wrote_some) ==
    CASE outcome = "ok" -> FullFile(doc)
      [] outcome = "open_fails" -> old
      [] outcome = "dump_fails" -> IF wrote_some THEN PartialFile(doc) ELSE EmptyFile
      [] outcome = "killed_open" -> EmptyFile
      [] outcome = "killed_dump" -> PartialFile(doc)

WriteOutcomes == {"ok", "open_fails", "dump_fails", "killed_open", "killed_dump"}

\* the counting loop as it would be without the increment of a plate already seen
RECURSIVE CountPlates_NoIncrement(_, _, _)
CountPlates_NoIncrement(plates, i, counts) ==
    IF i > Len(plates) THEN counts
    ELSE CountPlates_NoIncrement(plates, i + 1, DictSet(counts, plates[i].plate, 1))

\* the loop of run's finally block that counts the detections of each plate:
\* entries i..Len(plates) are still to be visited, counts is unique_plates
RECURSIVE CountPlates(_, _, _)
CountPlates(plates, i, counts) ==
    IF i > Len(plates) THEN counts
    ELSE LET plate == plates[i].plate
             c0 == IF plate \notin DOMAIN counts
                   THEN DictSet(counts, plate, 0) ELSE counts
         IN  CountPlates(plates, i + 1, DictSet(c0, plate, c0[plate] + 1))

\* the summary of run's finally block: built only "if self.detected_plates"
Summary(plates) ==
    IF Len(plates) > 0 THEN CountPlates(plates, 1, EmptyMap) ELSE EmptyMap

\* history record of the last candidate that reached is_duplicate: what run
\* did with it ("duplicate", "saved"), its plate, whether save_detection had been called for
\* that plate before, the clock reading of is_duplicate minus the reading
\* save_detection last stored for the plate, and how save_detection ended
NoCandidate ==
    [kind |-> "none", plate |-> "", known |-> FALSE, elapsed |-> 0, outcome |-> ""]

Decision(kind, plate_text, outcome) ==
    [kind |-> kind, plate |-> plate_text,
     known |-> plate_text \in accepted,
     elapsed |-> IF plate_text \in DOMAIN last_seen
                 THEN now - last_seen[plate_text] ELSE 0,
     outcome |-> outcome]

\* ----------------------------------------------------------------- Init
\* WebcamALPR.__init__: no argument is validated
Init ==
    /\ \E c \in Configs :
          /\ duplicate_threshold = c.duplicate_threshold
          /\ min_confidence = c.min_confidence
    /\ now = 0
    /\ session_id = 0
    /\ detected_plates = <<>>
    /\ last_seen = EmptyMap
    /\ file = NoFile
    /\ pc = "constructed"
    /\ unique_plates = EmptyMap
    /\ last = NoCandidate
    /\ written = [completed |-> 0, reached |-> 0]
    /\ accepted = {}
    /\ calls = 0
    /\ completed = 0
    /\ reached = 0
    /\ failed = {}

\* -------------------------------------------------------------- actions
\* run(): cap.isOpened() decides whether the loop is entered
Run ==
    /\ pc \in {"constructed", "done"}
    /\ \E opened \in BOOLEAN :
          IF opened
          THEN /\ pc' = "running"
               /\ unique_plates' = EmptyMap
               /\ UNCHANGED <<duplicate_threshold, min_confidence, session_id,
                              detected_plates, last_seen, file, now, last,
                              written, accepted, calls, completed, reached, failed>>
          ELSE UNCHANGED vars

\* the wall clock advances between two candidates
Tick ==
    /\ pc = "running"
    /\ now < MaxTime
    /\ now' = now + 1
    /\ UNCHANGED <<duplicate_threshold, min_confidence, session_id,
                   detected_plates, last_seen, file, pc, unique_plates, last,
                   written, accepted, calls, completed, reached, failed>>

\* the wall clock is set back between two candidates (time() is not monotonic)
ClockStepBack ==
    /\ pc = "running"
    /\ now > 0
    /\ now' = now - 1
    /\ UNCHANGED <<duplicate_threshold, min_confidence, session_id,
                   detected_plates, last_seen, file, pc, unique_plates, last,
                   written, accepted, calls, completed, reached, failed>>

\* run, lines 156-159: "if ocr_result and detection_conf >= self.min_confidence"
PassesFilter(detection_conf, ocr_result) ==
    ocr_result.present /\ detection_conf >= min_confidence

\* a candidate that the confidence filter drops: is_duplicate is not called
Filtered ==
    /\ pc = "running"
    /\ \E detection_conf \in DetConfs, ocr_result \in OcrResults :
          /\ ~PassesFilter(detection_conf, ocr_result)
    /\ UNCHANGED vars

\* a candidate that is_duplicate rejects: save_detection is not called
Duplicate ==
    /\ pc = "running"
    /\ \E detection_conf \in DetConfs, ocr_result \in OcrResults :
          /\ PassesFilter(detection_conf, ocr_result)
          /\ is_duplicate(ocr_result.text, now)
          /\ last' = Decision("duplicate", ocr_result.text, "")
    /\ UNCHANGED <<duplicate_threshold, min_confidence, session_id,
                   detected_plates, last_seen, file, now, pc, unique_plates,
                   written, accepted, calls, completed, reached, failed>>

\* save_detection on a confidence round() cannot round: last_seen is already
\* updated when the record construction raises, nothing is appended or written
SaveRaisesBeforeAppend(plate_text, d1) ==
    /\ last_seen' = DictSet(last_seen, plate_text, now + d1)
    /\ now' = now + d1
    /\ last' = Decision("saved", plate_text, "build_raises")
    /\ calls' = calls + 1
    /\ accepted' = accepted \cup {plate_text}
    /\ UNCHANGED <<duplicate_threshold, min_confidence, session_id,
                   detected_plates, file, pc, unique_plates, written,
                   completed, reached, failed>>

\* save_detection as it would be if the record were appended only after the
\* file had been written
SaveWrites_AppendAfterWrite(plate_text, confidence, detection_confidence, d1, d2, outcome, wrote_some) ==
    LET detection == Detection(plate_text, now + d1 + d2, confidence, detection_confidence)
        plates == AppendDetection(detected_plates, detection)
        doc == Document(plates, now + d1 + d2)
    IN  /\ last_seen' = DictSet(last_seen, plate_text, now + d1)
        /\ now' = now + d1 + d2
        /\ detected_plates' = IF outcome = "ok" THEN plates ELSE detected_plates
        /\ file' = WriteFile(file, doc, outcome, wrote_some)
        /\ pc' = IF outcome \in {"killed_open", "killed_dump"} THEN "killed" ELSE pc
        /\ last' = Decision("saved", plate_text, outcome)
        /\ calls' = calls + 1
        /\ reached' = reached + 1
        /\ completed' = IF outcome = "ok" THEN completed + 1 ELSE completed
        /\ written' = IF outcome = "ok"
                      THEN [completed |-> completed + 1, reached |-> reached + 1]
                      ELSE written
        /\ accepted' = accepted \cup {plate_text}
        /\ failed' = IF outcome \in {"open_fails", "dump_fails"}
                     THEN failed \cup {Len(plates)}
                     ELSE failed
        /\ UNCHANGED <<duplicate_threshold, min_confidence, session_id, unique_plates>>

\* save_detection on numeric confidences.  d1 is the clock advance between
\* is_duplicate's time() and save_detection's time(), d2 the advance between
\* that and datetime.now(); the later datetime.now() of the document is never
\* used because detected_plates is not empty at the write.
SaveWrites(plate_text, confidence, detection_confidence, d1, d2, outcome, wrote_some) ==
    LET detection == Detection(plate_text, now + d1 + d2, confidence, detection_confidence)
        plates == AppendDetection(detected_plates, detection)
        doc == Document(plates, now + d1 + d2)
    IN  /\ last_seen' = DictSet(last_seen, plate_text, now + d1)
        /\ now' = now + d1 + d2
        /\ detected_plates' = plates
        /\ file' = WriteFile(file, doc, outcome, wrote_some)
        /\ pc' = IF outcome \in {"killed_open", "killed_dump"} THEN "killed" ELSE pc
        /\ last' = Decision("saved", plate_text, outcome)
        /\ calls' = calls + 1
        /\ reached' = reached + 1
        /\ completed' = IF outcome = "ok" THEN completed + 1 ELSE completed
        /\ written' = IF outcome = "ok"
                      THEN [completed |-> completed + 1, reached |-> reached + 1]
                      ELSE written
        /\ accepted' = accepted \cup {plate_text}
        /\ failed' = IF outcome \in {"open_fails", "dump_fails"}
                     THEN failed \cup {Len(plates)}
                     ELSE failed
        /\ UNCHANGED <<duplicate_threshold, min_confidence, session_id, unique_plates>>

\* WebcamALPR.save_detection
save_detection(plate_text, confidence, detection_confidence, d1, d2, outcome, wrote_some) ==
    IF confidence.numeric
    THEN SaveWrites(plate_text, confidence, detection_confidence, d1, d2, outcome, wrote_some)
    ELSE SaveRaisesBeforeAppend(plate_text, d1)

\* a candidate that passes both filters: run calls save_detection; whatever
\* save_detection raises is caught by run's "except Exception" and the loop
\* goes on
Save ==
    /\ pc = "running"
    /\ calls < MaxCalls
    /\ \E detection_conf \in DetConfs, ocr_result \in OcrResults,
          d1 \in Delays, d2 \in Delays,
          outcome \in WriteOutcomes, wrote_some \in BOOLEAN :
          /\ PassesFilter(detection_conf, ocr_result)
          /\ ~is_duplicate(ocr_result.text, now)
          /\ now + d1 + d2 <= MaxTime
          /\ save_detection(ocr_result.text, ocr_result.confidence,
                            detection_conf, d1, d2, outcome, wrote_some)

\* the process is killed between two candidates
Kill ==
    /\ pc = "running"
    /\ pc' = "killed"
    /\ UNCHANGED <<duplicate_threshold, min_confidence, session_id,
                   detected_plates, last_seen, file, now, unique_plates, last,
                   written, accepted, calls, completed, reached, failed>>

\* the loop ends ('q', or a frame that cannot be read) and run's finally
\* block builds and prints the summary
EndRun ==
    /\ pc = "running"
    /\ pc' = "done"
    /\ unique_plates' = Summary(detected_plates)
    /\ UNCHANGED <<duplicate_threshold, min_confidence, session_id,
                   detected_plates, last_seen, file, now, last, written,
                   accepted, calls, completed, reached, failed>>

Next == Run \/ Tick \/ Filtered \/ Duplicate \/ Save \/ Kill \/ EndRun

\* the session under a clock that never goes back
Spec == Init /\ [][Next]_vars

\* the session with suppression disabled (duplicate_threshold = 0) and the
\* default confidence filter, under the wall clock, which can be set back
InitWall == Init /\ duplicate_threshold = 0 /\ min_confidence = 70000

SpecWall == InitWall /\ [][Next \/ ClockStepBack]_vars

\* ------------------------------------------------------------ properties
\* the plates of the entries of a detection list
PlatesOf(plates) == {plates[i].plate : i \in 1..Len(plates)}

\* how many entries of a detection list carry plate p
CountOf(plates, p) == Cardinality({i \in 1..Len(plates) : plates[i].plate = p})

\* the sum of the values of a mapping
RECURSIVE SumOf(_, _)
SumOf(f, S) ==
    IF S = {} THEN 0
    ELSE LET p == CHOOSE q \in S : TRUE IN f[p] + SumOf(f, S \ {p})

\* the configurations the specification calls invalid
InvalidConfiguration ==
    \/ duplicate_threshold < 0
    \/ min_confidence < 0
    \/ min_confidence > 100000

\* no save_detection call so far has raised or been cut short
NoCallFailed == completed = calls

\* C1: with duplicate_threshold >= 0 and a clock that never goes back, run
\* rejects a candidate (is_duplicate returns True, save_detection is not
\* called) exactly when save_detection has been called for its plate before
\* and fewer than duplicate_threshold seconds have passed since the reading
\* stored then; every other candidate, in particular one whose plate was never
\* accepted, is handed to save_detection.
C1_DuplicateWindow ==
    duplicate_threshold >= 0 =>
        /\ last.kind = "duplicate" =>
               last.known /\ last.elapsed < duplicate_threshold
        /\ last.kind = "saved" =>
               ~last.known \/ last.elapsed >= duplicate_threshold

\* a plate accepted again exactly duplicate_threshold seconds after its last
\* acceptance, with a positive window
C1_Witness ==
    /\ duplicate_threshold > 0
    /\ last.kind = "saved"
    /\ last.known
    /\ last.elapsed = duplicate_threshold

\* C2 as stated: every document in the session file has total_detections equal
\* to the length of its detections list and to the number of save_detection
\* calls that had completed successfully when it was written (checked on the
\* configurations the specification calls valid).
C2_Original ==
    (~InvalidConfiguration /\ file.kind = "document") =>
        /\ file.doc.total_detections = Len(file.doc.detections)
        /\ file.doc.total_detections = written.completed

\* C2 as amended: every document in the session file has total_detections
\* equal to the length of its detections list and to the number of
\* save_detection calls that had appended their record when it was written,
\* the calls whose write failed included.
C2_Amended ==
    file.kind = "document" =>
        /\ file.doc.total_detections = Len(file.doc.detections)
        /\ file.doc.total_detections = written.reached

\* a document written after an earlier write had failed
C2_Witness ==
    /\ file.kind = "document"
    /\ written.reached > written.completed

\* C3: a detection whose file write failed stays in detected_plates at its
\* position and in last_seen, the entries before it are never changed, and a
\* save_detection whose write succeeds afterwards leaves a document that holds
\* it at that position.
C3_FailedWriteKept ==
    /\ [](\A i \in failed :
             /\ i \in 1..Len(detected_plates)
             /\ detected_plates[i].plate \in DOMAIN last_seen
             /\ (last.kind = "saved" /\ last.outcome = "ok") =>
                    /\ file.kind = "document"
                    /\ Len(file.doc.detections) >= i
                    /\ file.doc.detections[i] = detected_plates[i])
    /\ [][/\ Len(detected_plates') >= Len(detected_plates)
          /\ \A i \in 1..Len(detected_plates) : detected_plates'[i] = detected_plates[i]
          /\ failed \subseteq failed'
          /\ (calls' = calls + 1 /\ last'.outcome \in {"open_fails", "dump_fails"}) =>
                 /\ Len(detected_plates') = Len(detected_plates) + 1
                 /\ detected_plates'[Len(detected_plates')].plate = last'.plate
                 /\ Len(detected_plates') \in failed'
                 /\ last'.plate \in DOMAIN last_seen']_vars

\* a write that succeeded after the write of an earlier detection had failed
C3_Witness ==
    /\ failed /= {}
    /\ last.kind = "saved"
    /\ last.outcome = "ok"
    /\ file.kind = "document"
    /\ \E i \in failed : i < Len(file.doc.detections)

\* C4: the session file always holds a complete document for some non-empty
\* prefix of detected_plates, also when the process is killed between two
\* writes or during one.  Checked from the first completed write on, on the
\* configurations the specification calls valid and with numeric confidences
\* only: the file that held a full document must hold one ever after.
C4_AlwaysParseable ==
    (~InvalidConfiguration /\ written.completed >= 1 /\ reached = calls) =>
        /\ file.kind = "document"
        /\ \E n \in 1..Len(detected_plates) :
              file.doc = Document(SubSeq(detected_plates, 1, n), 0)

\* C5 as stated: with duplicate_threshold = 0, is_duplicate never returns
\* True, whatever the two clock readings are (checked on the sessions in which
\* every save_detection call completed).
C5_Original ==
    (duplicate_threshold = 0 /\ NoCallFailed) => last.kind /= "duplicate"

\* C5 as amended: with duplicate_threshold = 0, a candidate is rejected
\* exactly when its plate was accepted before and the clock reads earlier than
\* the reading stored for it (the clock was set back); a candidate whose
\* reading is not earlier than the stored one is always handed to
\* save_detection.
C5_Amended ==
    duplicate_threshold = 0 =>
        /\ last.kind = "duplicate" => last.known /\ last.elapsed < 0
        /\ last.kind = "saved" => ~last.known \/ last.elapsed >= 0

\* with duplicate_threshold = 0, a plate accepted again zero seconds after its
\* last acceptance
C5_Witness ==
    /\ duplicate_threshold = 0
    /\ last.kind = "saved"
    /\ last.known
    /\ last.elapsed = 0

\* C6: under a negative duplicate_threshold, or a min_confidence outside
\* [0,1], construction fails, so no candidate reaches is_duplicate and
\* save_detection is never called (checked on the sessions in which every
\* save_detection call completed).
C6_InvalidConfigurationRejected ==
    (InvalidConfiguration /\ NoCallFailed) =>
        /\ last.kind = "none"
        /\ calls = 0
        /\ detected_plates = <<>>

\* C7: with duplicate_threshold >= 0 and a clock that never goes back, two
\* entries of detected_plates with the same plate have timestamps at least
\* duplicate_threshold seconds apart (checked on the sessions in which every
\* save_detection call completed).
C7_SamePlateSpacing ==
    (duplicate_threshold >= 0 /\ NoCallFailed) =>
        \A i, j \in 1..Len(detected_plates) :
            (i < j /\ detected_plates[i].plate = detected_plates[j].plate) =>
                detected_plates[j].timestamp - detected_plates[i].timestamp
                    >= duplicate_threshold

\* C8: the summary built at the end of run maps exactly the plates of
\* detected_plates, each to the number of entries carrying it, the counts sum
\* to len(detected_plates), and building it changes neither detected_plates,
\* last_seen nor the session file.
C8_Summary ==
    /\ [](pc = "done" =>
             /\ DOMAIN unique_plates = PlatesOf(detected_plates)
             /\ \A p \in DOMAIN unique_plates :
                   unique_plates[p] = CountOf(detected_plates, p)
             /\ SumOf(unique_plates, DOMAIN unique_plates) = Len(detected_plates))
    /\ [][(pc = "running" /\ pc' = "done") =>
             UNCHANGED <<detected_plates, last_seen, file>>]_vars

\* a summary in which a plate was accepted twice
C8_Witness ==
    /\ pc = "done"
    /\ \E p \in DOMAIN unique_plates : unique_plates[p] = 2

\* C9: a plate is a key of last_seen exactly when an entry of detected_plates
\* carries it, also after save_detection calls that raised part-way through
\* (checked on the configurations the specification calls valid).
C9_LastSeenIffLogged ==
    ~InvalidConfiguration => DOMAIN last_seen = PlatesOf(detected_plates)

\* C10: every document in the session file has the session's session_id and
\* session_start equal to the timestamp of the first entry of detected_plates,
\* and session_start is the same in each document that replaces another.
C10_SessionStart ==
    /\ [](file.kind = "document" =>
             /\ file.doc.session_id = session_id
             /\ file.doc.session_start = detected_plates[1].timestamp)
    /\ [][(file.kind = "document" /\ file'.kind = "document") =>
             file'.doc.session_start = file.doc.session_start]_vars

\* a document of two detections whose second timestamp differs from session_start
C10_Witness ==
    /\ file.kind = "document"
    /\ Len(file.doc.detections) = 2
    /\ file.doc.detections[2].timestamp /= file.doc.session_start

====
